---- MODULE Spec2Model ----
(***************************************************************************)
(* Model of package polyline (src/polyline.go): the base-32 variable-      *)
(* length integer codec, the zigzag signed codec, and the delta-coded      *)
(* coordinate, sequence and flat-array codecs.                             *)
(*                                                                         *)
(* Go's uint and int are machine words of UintSize bits.  A word is kept   *)
(* as its base-32 digits, least significant first, the top digit holding   *)
(* the bits that are left over; every arithmetic operator wraps modulo     *)
(* 2^UintSize exactly as the machine does.  A signed int is the same word  *)
(* read in two's complement, so the conversions uint(i) and int(u) keep    *)
(* the digits.                                                             *)
(*                                                                         *)
(* A float64 is kept as the exact real (n/d) * 2^e; a decoded coordinate   *)
(* float64(j)/Scale is kept as the fraction with integer numerator j and   *)
(* denominator Scale.  The rounding error of float64 itself is not         *)
(* modelled.                                                               *)
(***************************************************************************)
EXTENDS Integers, Sequences, FiniteSets, TLC

(***************************************************************************)
(* Machine words                                                           *)
(***************************************************************************)
UintSize == 64

Radix == 2^5

Digits == (UintSize + 4) \div 5

TopMod == 2^(UintSize - 5 * (Digits - 1))

WideDigits == Digits + 2

\* the sequence of the values of a function on 1..n
Tuple(f) == f \o <<>>

Norm(d) ==
    Tuple([k \in 1..Digits |-> IF k = Digits THEN d[k] % TopMod ELSE d[k]])

RECURSIVE NatDigits(_, _)
NatDigits(n, k) ==
    IF k = 0 THEN <<>> ELSE <<n % Radix>> \o NatDigits(n \div Radix, k - 1)

\* uint(n) of a natural number n
Uint(n) == Norm(NatDigits(n, Digits))

Zero == Uint(0)

One == Uint(1)

RECURSIVE AddC(_, _, _, _)
AddC(x, y, k, c) ==
    IF k > Len(x) THEN <<>>
    ELSE LET s == x[k] + y[k] + c
         IN  <<s % Radix>> \o AddC(x, y, k + 1, s \div Radix)

\* x + y on words
Add(x, y) == Norm(AddC(x, y, 1, 0))

\* ^x on words
Not(x) ==
    Tuple([k \in 1..Digits |->
             IF k = Digits THEN TopMod - 1 - x[k] ELSE Radix - 1 - x[k]])

\* -x on words
Neg(x) == Add(Not(x), One)

\* x - y on words
Sub(x, y) == Add(x, Neg(y))

RECURSIVE Dbl(_, _)
Dbl(x, r) == IF r = 0 THEN x ELSE Dbl(Add(x, x), r - 1)

\* x << s on words
Shl(x, s) ==
    IF s >= UintSize THEN Zero
    ELSE Dbl(Norm([k \in 1..Digits |->
                     IF k > s \div 5 THEN x[k - s \div 5] ELSE 0]), s % 5)

Half(x) ==
    Tuple([k \in 1..Digits |->
             x[k] \div 2 + (IF k < Digits THEN (Radix \div 2) * (x[k + 1] % 2) ELSE 0)])

RECURSIVE Halve(_, _)
Halve(x, r) == IF r = 0 THEN x ELSE Halve(Half(x), r - 1)

\* x >> s on unsigned words
Shr(x, s) ==
    IF s >= UintSize THEN Zero
    ELSE Halve(Tuple([k \in 1..Digits |->
                        IF k + s \div 5 <= Digits THEN x[k + s \div 5] ELSE 0]), s % 5)

\* x & 31 and x & 1, as numbers
And31(x) == x[1]

And1(x) == x[1] % 2

\* byte(x): the low eight bits of a word, as a number
Byte(x) == (x[1] + Radix * x[2]) % 256

\* x >= 32 on unsigned words
Ge32(x) == \E k \in 2..Digits : x[k] # 0

\* i < 0 on signed words
IsNeg(i) == i[Digits] >= TopMod \div 2

\* int(n) of an integer n
IntOf(n) == IF n < 0 THEN Neg(Uint(-n)) ELSE Uint(n)

MinInt == Shl(One, UintSize - 1)

MaxInt == Not(MinInt)

(***************************************************************************)
(* Slices: Go tells a nil slice from an empty one                          *)
(***************************************************************************)
NilSlice == [nil |-> TRUE, e |-> <<>>]

Slice(s) == [nil |-> FALSE, e |-> s]

len(s) == Len(s.e)

append(s, x) == [nil |-> FALSE, e |-> Append(s.e, x)]

\* s[i:]
SliceFrom(s, i) == [nil |-> s.nil, e |-> SubSeq(s.e, i + 1, Len(s.e))]

(***************************************************************************)
(* Errors                                                                  *)
(***************************************************************************)
errDimensionalMismatch == "dimensional mismatch"

errInvalidByte == "invalid byte"

errUnterminatedSequence == "unterminated sequence"

NoErr == "nil"

(***************************************************************************)
(* Scalar integer codec                                                    *)
(***************************************************************************)
\* DecodeUint returning buf[i:], the terminal byte still in the remainder
RECURSIVE DecodeUintLoopKeepsByte(_, _, _, _)
DecodeUintLoopKeepsByte(buf, i, u, shift) ==
    IF i >= len(buf) THEN [u |-> Zero, buf |-> NilSlice, err |-> errUnterminatedSequence]
    ELSE LET b == buf.e[i + 1]
         IN  IF 63 <= b /\ b < 95
             THEN [u   |-> Add(u, Shl(Uint(b - 63), shift)),
                   buf |-> SliceFrom(buf, i),
                   err |-> NoErr]
             ELSE IF 95 <= b /\ b < 127
             THEN DecodeUintLoopKeepsByte(buf, i + 1, Add(u, Shl(Uint(b - 95), shift)),
                                          shift + 5)
             ELSE [u |-> Zero, buf |-> NilSlice, err |-> errInvalidByte]

RECURSIVE DecodeUintLoop(_, _, _, _)
DecodeUintLoop(buf, i, u, shift) ==
    IF i >= len(buf) THEN [u |-> Zero, buf |-> NilSlice, err |-> errUnterminatedSequence]
    ELSE LET b == buf.e[i + 1]
         IN  IF 63 <= b /\ b < 95
             THEN [u   |-> Add(u, Shl(Uint(b - 63), shift)),
                   buf |-> SliceFrom(buf, i + 1),
                   err |-> NoErr]
             ELSE IF 95 <= b /\ b < 127
             THEN DecodeUintLoop(buf, i + 1, Add(u, Shl(Uint(b - 95), shift)), shift + 5)
             ELSE [u |-> Zero, buf |-> NilSlice, err |-> errInvalidByte]

DecodeUint(buf) == DecodeUintLoop(buf, 0, Zero, 0)

DecodeInt(buf) ==
    LET r == DecodeUint(buf)
    IN  IF r.err # NoErr THEN [i |-> Zero, buf |-> NilSlice, err |-> r.err]
        ELSE IF And1(r.u) = 0
        THEN [i |-> Shr(r.u, 1), buf |-> r.buf, err |-> NoErr]
        ELSE [i |-> Neg(Shr(Add(r.u, One), 1)), buf |-> r.buf, err |-> NoErr]

\* EncodeUint looping while u > 32
RECURSIVE EncodeUintGt32(_, _)
EncodeUintGt32(buf, u) ==
    IF Ge32(u) /\ u # Uint(32)
    THEN EncodeUintGt32(append(buf, And31(u) + 95), Shr(u, 5))
    ELSE append(buf, Byte(Add(u, Uint(63))))

RECURSIVE EncodeUint(_, _)
EncodeUint(buf, u) ==
    IF Ge32(u) THEN EncodeUint(append(buf, And31(u) + 95), Shr(u, 5))
    ELSE append(buf, Byte(Add(u, Uint(63))))

\* EncodeInt with u = uint(-(i << 1)) for a negative i
EncodeIntNoComplement(buf, i) ==
    IF IsNeg(i) THEN EncodeUint(buf, Neg(Shl(i, 1)))
    ELSE EncodeUint(buf, Shl(i, 1))

EncodeInt(buf, i) ==
    IF IsNeg(i) THEN EncodeUint(buf, Not(Shl(i, 1)))
    ELSE EncodeUint(buf, Shl(i, 1))

(***************************************************************************)
(* float64 values                                                          *)
(***************************************************************************)
\* the real (n / d) * 2^e, with d > 0 and e >= 0; d = 1 whenever e > 0
Float(n, d, e) == [n |-> n, d |-> d, e |-> e]

Abs(n) == IF n < 0 THEN -n ELSE n

RECURSIVE GCD(_, _)
GCD(a, b) == IF b = 0 THEN a ELSE GCD(b, a % b)

\* a * b
FMul(a, b) ==
    LET g1 == GCD(Abs(a.n), b.d)
        g2 == GCD(Abs(b.n), a.d)
    IN  Float((a.n \div g1) * (b.n \div g2), (a.d \div g2) * (b.d \div g1), a.e + b.e)

\* -x
FNeg(x) == Float(-x.n, x.d, x.e)

\* math.Floor(x + 0.5); a float with e > 0 is an integer already
FloorHalf(x) ==
    IF x.e > 0 THEN x ELSE Float((2 * x.n + x.d) \div (2 * x.d), 1, 0)

\* int(x) of an integer-valued float within the range of int
IntOfFloat(x) ==
    IF x.n < 0 THEN Neg(Shl(Uint(-x.n), x.e)) ELSE Shl(Uint(x.n), x.e)

round(x) ==
    IF x.n < 0 THEN IntOfFloat(FNeg(FloorHalf(FNeg(x))))
    ELSE IntOfFloat(FloorHalf(x))

\* The integer a word stands for as an int, in two's complement over
\* WideDigits digits: wide enough that sums of decoded values never wrap,
\* as float64 sums do not.
SignExtend(i) ==
    Tuple([k \in 1..WideDigits |->
             IF k < Digits THEN i[k]
             ELSE IF k = Digits THEN i[k] + (IF IsNeg(i) THEN Radix - TopMod ELSE 0)
             ELSE IF IsNeg(i) THEN Radix - 1 ELSE 0])

\* float64(j) / scale
Quot(j, scale) == [num |-> SignExtend(j), den |-> scale]

\* x + y on decoded floats of one codec
QAdd(x, y) == [num |-> AddC(x.num, y.num, 1, 0), den |-> x.den]

(***************************************************************************)
(* Codec                                                                   *)
(***************************************************************************)
Codec(dim, scale) == [Dim |-> dim, Scale |-> scale]

defaultCodec == Codec(2, Float(100000, 1, 0))

\* make([]int, n)
MakeInts(n) == Tuple([k \in 1..n |-> Zero])

(***************************************************************************)
(* Coordinate and sequence decoders                                        *)
(***************************************************************************)
RECURSIVE CodecDecodeCoordLoop(_, _, _, _)
CodecDecodeCoordLoop(c, coord, i, buf) ==
    IF i >= c.Dim THEN [coord |-> Slice(coord), buf |-> buf, err |-> NoErr]
    ELSE LET r == DecodeInt(buf)
         IN  IF r.err # NoErr
             THEN [coord |-> NilSlice, buf |-> NilSlice, err |-> r.err]
             ELSE CodecDecodeCoordLoop(c, Append(coord, Quot(r.i, c.Scale)), i + 1, r.buf)

CodecDecodeCoord(c, buf) == CodecDecodeCoordLoop(c, <<>>, 0, buf)

\* DecodeCoords returning the coordinates decoded before an error
RECURSIVE CodecDecodeCoordsLoopPartial(_, _, _)
CodecDecodeCoordsLoopPartial(c, coords, buf) ==
    IF len(buf) = 0 THEN [coords |-> Slice(coords), buf |-> NilSlice, err |-> NoErr]
    ELSE LET r == CodecDecodeCoord(c, buf)
         IN  IF r.err # NoErr
             THEN [coords |-> Slice(coords), buf |-> NilSlice, err |-> NoErr]
             ELSE LET prev  == coords[Len(coords)]
                      coord == [j \in 1..len(r.coord) |-> QAdd(r.coord.e[j], prev.e[j])]
                  IN  CodecDecodeCoordsLoopPartial(c, Append(coords, Slice(coord)), r.buf)

RECURSIVE CodecDecodeCoordsLoop(_, _, _)
CodecDecodeCoordsLoop(c, coords, buf) ==
    IF len(buf) = 0 THEN [coords |-> Slice(coords), buf |-> NilSlice, err |-> NoErr]
    ELSE LET r == CodecDecodeCoord(c, buf)
         IN  IF r.err # NoErr
             THEN [coords |-> NilSlice, buf |-> NilSlice, err |-> r.err]
             ELSE LET prev  == coords[Len(coords)]
                      coord == [j \in 1..len(r.coord) |-> QAdd(r.coord.e[j], prev.e[j])]
                  IN  CodecDecodeCoordsLoop(c, Append(coords, Slice(coord)), r.buf)

\* DecodeCoords returning an empty sequence for an empty buffer
CodecDecodeCoordsEmptyOk(c, buf) ==
    IF len(buf) = 0 THEN [coords |-> Slice(<<>>), buf |-> NilSlice, err |-> NoErr]
    ELSE LET r == CodecDecodeCoord(c, buf)
         IN  IF r.err # NoErr
             THEN [coords |-> NilSlice, buf |-> NilSlice, err |-> r.err]
             ELSE CodecDecodeCoordsLoop(c, <<r.coord>>, r.buf)

CodecDecodeCoords(c, buf) ==
    LET r == CodecDecodeCoord(c, buf)
    IN  IF r.err # NoErr
        THEN [coords |-> NilSlice, buf |-> NilSlice, err |-> r.err]
        ELSE CodecDecodeCoordsLoop(c, <<r.coord>>, r.buf)

RECURSIVE CodecDecodeFlatCoordsLoop(_, _, _, _, _)
CodecDecodeFlatCoordsLoop(c, fcs, buf, last, j) ==
    IF j = 0 /\ len(buf) = 0 THEN [fcs |-> fcs, buf |-> NilSlice, err |-> NoErr]
    ELSE LET r == DecodeInt(buf)
         IN  IF r.err # NoErr
             THEN [fcs |-> NilSlice, buf |-> NilSlice, err |-> r.err]
             ELSE LET k == Add(last[j + 1], r.i)
                  IN  CodecDecodeFlatCoordsLoop(c, append(fcs, Quot(k, c.Scale)), r.buf,
                                                [last EXCEPT ![j + 1] = k],
                                                IF j + 1 < c.Dim THEN j + 1 ELSE 0)

\* DecodeFlatCoords checking the length of buf in place of that of fcs
CodecDecodeFlatCoordsChecksBuf(c, fcs, buf) ==
    IF len(buf) % c.Dim # 0
    THEN [fcs |-> NilSlice, buf |-> NilSlice, err |-> errDimensionalMismatch]
    ELSE CodecDecodeFlatCoordsLoop(c, fcs, buf, MakeInts(c.Dim), 0)

CodecDecodeFlatCoords(c, fcs, buf) ==
    IF len(fcs) % c.Dim # 0
    THEN [fcs |-> NilSlice, buf |-> NilSlice, err |-> errDimensionalMismatch]
    ELSE CodecDecodeFlatCoordsLoop(c, fcs, buf, MakeInts(c.Dim), 0)

(***************************************************************************)
(* Coordinate and sequence encoders.  A slice that is only read (coord,    *)
(* coords, the fcs of EncodeFlatCoords) is the sequence of its elements.   *)
(***************************************************************************)
RECURSIVE CodecEncodeCoordLoop(_, _, _, _)
CodecEncodeCoordLoop(c, buf, coord, i) ==
    IF i >= Len(coord) THEN buf
    ELSE CodecEncodeCoordLoop(c, EncodeInt(buf, round(FMul(c.Scale, coord[i + 1]))),
                              coord, i + 1)

CodecEncodeCoord(c, buf, coord) == CodecEncodeCoordLoop(c, buf, coord, 0)

\* EncodeCoords never storing ex in last
RECURSIVE CodecEncodeCoordsInnerNoLast(_, _, _, _)
CodecEncodeCoordsInnerNoLast(c, st, coord, i) ==
    IF i >= Len(coord) THEN st
    ELSE LET ex == round(FMul(c.Scale, coord[i + 1]))
         IN  CodecEncodeCoordsInnerNoLast(c,
                 [buf  |-> EncodeInt(st.buf, Sub(ex, st.last[i + 1])),
                  last |-> st.last],
                 coord, i + 1)

\* st is the pair of buf and last
RECURSIVE CodecEncodeCoordsInner(_, _, _, _)
CodecEncodeCoordsInner(c, st, coord, i) ==
    IF i >= Len(coord) THEN st
    ELSE LET ex == round(FMul(c.Scale, coord[i + 1]))
         IN  CodecEncodeCoordsInner(c,
                 [buf  |-> EncodeInt(st.buf, Sub(ex, st.last[i + 1])),
                  last |-> [st.last EXCEPT ![i + 1] = ex]],
                 coord, i + 1)

RECURSIVE CodecEncodeCoordsLoop(_, _, _, _)
CodecEncodeCoordsLoop(c, st, coords, k) ==
    IF k >= Len(coords) THEN st
    ELSE CodecEncodeCoordsLoop(c, CodecEncodeCoordsInner(c, st, coords[k + 1], 0),
                               coords, k + 1)

\* buf and last when the loops of EncodeCoords end
CodecEncodeCoordsRun(c, buf, coords) ==
    CodecEncodeCoordsLoop(c, [buf |-> buf, last |-> MakeInts(c.Dim)], coords, 0)

CodecEncodeCoords(c, buf, coords) == CodecEncodeCoordsRun(c, buf, coords).buf

\* EncodeFlatCoords taking the delta from the previous component
RECURSIVE CodecEncodeFlatCoordsLoopPrev(_, _, _, _)
CodecEncodeFlatCoordsLoopPrev(c, st, fcs, i) ==
    IF i >= Len(fcs) THEN st
    ELSE LET ex == round(FMul(c.Scale, fcs[i + 1]))
             j  == i % c.Dim
         IN  CodecEncodeFlatCoordsLoopPrev(c,
                 [buf  |-> EncodeInt(st.buf, Sub(ex, st.last[j + 1])),
                  last |-> [k \in 1..c.Dim |-> ex]],
                 fcs, i + 1)

RECURSIVE CodecEncodeFlatCoordsLoop(_, _, _, _)
CodecEncodeFlatCoordsLoop(c, st, fcs, i) ==
    IF i >= Len(fcs) THEN st
    ELSE LET ex == round(FMul(c.Scale, fcs[i + 1]))
             j  == i % c.Dim
         IN  CodecEncodeFlatCoordsLoop(c,
                 [buf  |-> EncodeInt(st.buf, Sub(ex, st.last[j + 1])),
                  last |-> [st.last EXCEPT ![j + 1] = ex]],
                 fcs, i + 1)

\* buf and last when the loop of EncodeFlatCoords ends
CodecEncodeFlatCoordsRun(c, buf, fcs) ==
    CodecEncodeFlatCoordsLoop(c, [buf |-> buf, last |-> MakeInts(c.Dim)], fcs, 0)

CodecEncodeFlatCoords(c, buf, fcs) ==
    IF Len(fcs) % c.Dim # 0
    THEN [buf |-> NilSlice, err |-> errDimensionalMismatch]
    ELSE [buf |-> CodecEncodeFlatCoordsRun(c, buf, fcs).buf, err |-> NoErr]

(***************************************************************************)
(* Package-level functions of the default codec                            *)
(***************************************************************************)
DecodeCoord(buf) == CodecDecodeCoord(defaultCodec, buf)

DecodeCoords(buf) == CodecDecodeCoords(defaultCodec, buf)

EncodeCoord(coord) == CodecEncodeCoord(defaultCodec, NilSlice, coord)

EncodeCoords(coords) == CodecEncodeCoords(defaultCodec, NilSlice, coords)

(***************************************************************************)
(* Bounds and the inputs drawn from them                                   *)
(***************************************************************************)
MaxSmall == 32

MaxTail == 1

MaxLen == 3

MaxFlat == 4

MaxDim == 2

SeqsUpTo(S, n) == UNION {[1..k -> S] : k \in 0..n}

\* words: every small number at every digit position, and their complements
\* (0, 1, 31, 32, 2^62, 2^63 = MinInt, MaxInt, 2^64 - 2, 2^64 - 1 = -1, ...)
WordInputs ==
    LET base == {Shl(Uint(n), 5 * q) : n \in 0..MaxSmall, q \in 0..(Digits - 1)}
    IN  base \cup {Not(w) : w \in base}

\* the bytes at the edges of the three ranges DecodeUint tells apart
ByteSamples == {62, 63, 94, 95, 126, 127}

RawBufs == {NilSlice} \cup {Slice(s) : s \in SeqsUpTo(ByteSamples, MaxLen)}

Tails == SeqsUpTo({62, 63, 126}, MaxTail)

\* the buffer an encoder appends to: nil, or holding foreign bytes
Prefixes == {NilSlice, Slice(<<95, 200>>)}

UnitScale == Float(1, 1, 0)

UnitCodecs == {Codec(d, UnitScale) : d \in 1..MaxDim}

Codecs == UnitCodecs \cup {defaultCodec}

\* coordinate components; Scale * x stays within the range of int
Reals(c) ==
    IF c.Scale = UnitScale
    THEN {Float(1, 2, 0), Float(-3, 2, 0),
          Float(1, 1, UintSize - 2), Float(-1, 1, UintSize - 1)}
    ELSE {Float(385, 10, 0), Float(-1202, 10, 0), Float(407, 10, 0),
          Float(-12095, 100, 0)}

Flats(c) == SeqsUpTo(Reals(c), MaxFlat)

\* the coordinates of dim components each that a flat array holds
Chunk(fcs, dim) ==
    Tuple([k \in 1..(Len(fcs) \div dim) |-> SubSeq(fcs, (k - 1) * dim + 1, k * dim)])

CoordSeqs(c) == {Chunk(f, c.Dim) : f \in {g \in Flats(c) : Len(g) % c.Dim = 0}}

Coords(c) == {f \in Flats(c) : Len(f) = c.Dim}

\* the destination array handed to DecodeFlatCoords
Dests(c) ==
    {NilSlice} \cup {Slice([k \in 1..n |-> Quot(One, c.Scale)]) : n \in 1..MaxDim}

(***************************************************************************)
(* The caller: one call of an encoder, or of a decoder on raw bytes, or a  *)
(* decoder on what an encoder returned followed by trailing bytes          *)
(***************************************************************************)
VARIABLES fn, codec, arg, ret, sent

vars == <<fn, codec, arg, ret, sent>>

NoSent == [fn |-> "none"]

Init ==
    /\ fn = "init"
    /\ codec = defaultCodec
    /\ arg = [buf |-> NilSlice]
    /\ ret = [buf |-> NilSlice]
    /\ sent = NoSent

Called(f, c, a, r) ==
    /\ fn' = f
    /\ codec' = c
    /\ arg' = a
    /\ ret' = r

CallEncodeUint ==
    /\ fn = "init"
    /\ \E buf \in Prefixes, u \in WordInputs :
          Called("EncodeUint", codec, [buf |-> buf, u |-> u], [buf |-> EncodeUint(buf, u)])
    /\ UNCHANGED sent

CallEncodeInt ==
    /\ fn = "init"
    /\ \E buf \in Prefixes, i \in WordInputs :
          Called("EncodeInt", codec, [buf |-> buf, i |-> i], [buf |-> EncodeInt(buf, i)])
    /\ UNCHANGED sent

CallCodecEncodeCoord ==
    /\ fn = "init"
    /\ \E c \in Codecs, buf \in Prefixes :
          \E coord \in Coords(c) :
             Called("Codec.EncodeCoord", c, [buf |-> buf, coord |-> coord],
                    [buf |-> CodecEncodeCoord(c, buf, coord)])
    /\ UNCHANGED sent

CallCodecEncodeCoords ==
    /\ fn = "init"
    /\ \E c \in Codecs, buf \in Prefixes :
          \E coords \in CoordSeqs(c) :
             Called("Codec.EncodeCoords", c, [buf |-> buf, coords |-> coords],
                    [buf |-> CodecEncodeCoords(c, buf, coords)])
    /\ UNCHANGED sent

CallCodecEncodeFlatCoords ==
    /\ fn = "init"
    /\ \E c \in Codecs, buf \in Prefixes :
          \E fcs \in Flats(c) :
             Called("Codec.EncodeFlatCoords", c, [buf |-> buf, fcs |-> fcs],
                    CodecEncodeFlatCoords(c, buf, fcs))
    /\ UNCHANGED sent

CallEncodeCoord ==
    /\ fn = "init"
    /\ \E coord \in Coords(defaultCodec) :
          Called("EncodeCoord", defaultCodec, [buf |-> NilSlice, coord |-> coord],
                 [buf |-> EncodeCoord(coord)])
    /\ UNCHANGED sent

CallEncodeCoords ==
    /\ fn = "init"
    /\ \E coords \in CoordSeqs(defaultCodec) :
          Called("EncodeCoords", defaultCodec, [buf |-> NilSlice, coords |-> coords],
                 [buf |-> EncodeCoords(coords)])
    /\ UNCHANGED sent

\* What a decoder can be handed: raw bytes when nothing was called yet, or
\* what one of the encoders named in from returned for a nil buffer, then
\* followed by one of tails.
Wire(from, tails) ==
    IF fn = "init"
    THEN {[buf |-> b, sent |-> NoSent] : b \in RawBufs}
    ELSE IF fn \in from /\ arg.buf.nil /\ ("err" \in DOMAIN ret => ret.err = NoErr)
    THEN {[buf  |-> Slice(ret.buf.e \o t),
           sent |-> [fn |-> fn, codec |-> codec, arg |-> arg, tail |-> t]] : t \in tails}
    ELSE {}

\* the codecs a decoding method is called on: any dimension on raw bytes
\* (the scale has no part in what bytes are consumed), the encoder's codec
\* on what an encoder returned
Receivers == IF fn = "init" THEN UnitCodecs ELSE {codec}

CallDecodeUint ==
    \E w \in Wire({"EncodeUint"}, Tails) :
       /\ Called("DecodeUint", codec, [buf |-> w.buf], DecodeUint(w.buf))
       /\ sent' = w.sent

CallDecodeInt ==
    \E w \in Wire({"EncodeInt"}, Tails) :
       /\ Called("DecodeInt", codec, [buf |-> w.buf], DecodeInt(w.buf))
       /\ sent' = w.sent

CallCodecDecodeCoord ==
    \E w \in Wire({"Codec.EncodeCoord"}, Tails), c \in Receivers :
       /\ Called("Codec.DecodeCoord", c, [buf |-> w.buf], CodecDecodeCoord(c, w.buf))
       /\ sent' = w.sent

CallCodecDecodeCoords ==
    \E w \in Wire({"Codec.EncodeCoords", "Codec.EncodeFlatCoords"}, {<<>>}),
       c \in Receivers :
       /\ Called("Codec.DecodeCoords", c, [buf |-> w.buf], CodecDecodeCoords(c, w.buf))
       /\ sent' = w.sent

CallCodecDecodeFlatCoords ==
    \E w \in Wire({"Codec.EncodeCoords", "Codec.EncodeFlatCoords"}, {<<>>}),
       c \in Receivers :
       \E fcs \in IF fn = "init" THEN Dests(c) ELSE {NilSlice} :
          /\ Called("Codec.DecodeFlatCoords", c, [fcs |-> fcs, buf |-> w.buf],
                    CodecDecodeFlatCoords(c, fcs, w.buf))
          /\ sent' = w.sent

CallDecodeCoord ==
    \E w \in Wire({"EncodeCoord"}, Tails) :
       /\ Called("DecodeCoord", defaultCodec, [buf |-> w.buf], DecodeCoord(w.buf))
       /\ sent' = w.sent

CallDecodeCoords ==
    \E w \in Wire({"EncodeCoords"}, {<<>>}) :
       /\ Called("DecodeCoords", defaultCodec, [buf |-> w.buf], DecodeCoords(w.buf))
       /\ sent' = w.sent

Next ==
    \/ CallEncodeUint
    \/ CallEncodeInt
    \/ CallCodecEncodeCoord
    \/ CallCodecEncodeCoords
    \/ CallCodecEncodeFlatCoords
    \/ CallEncodeCoord
    \/ CallEncodeCoords
    \/ CallDecodeUint
    \/ CallDecodeInt
    \/ CallCodecDecodeCoord
    \/ CallCodecDecodeCoords
    \/ CallCodecDecodeFlatCoords
    \/ CallDecodeCoord
    \/ CallDecodeCoords

Spec == Init /\ [][Next]_vars

(***************************************************************************)
(* Vocabulary of the properties                                            *)
(***************************************************************************)
IsTerminal(b) == 63 <= b /\ b < 95

IsContinuation(b) == 95 <= b /\ b < 127

IsForeign(b) == ~IsTerminal(b) /\ ~IsContinuation(b)

HasForeign(s) == \E p \in 1..Len(s) : IsForeign(s[p])

\* a foreign byte comes before the n-th terminal byte of s
ForeignWithin(s, n) ==
    \E p \in 1..Len(s) :
       /\ IsForeign(s[p])
       /\ Cardinality({q \in 1..(p - 1) : IsTerminal(s[q])}) < n

AllContinuation(s) == \A p \in 1..Len(s) : IsContinuation(s[p])

\* the bytes a call appended to the buffer it was given
Appended(before, after) == SubSeq(after.e, len(before) + 1, len(after))

KeepsPrefix(before, after) ==
    /\ len(after) >= len(before)
    /\ SubSeq(after.e, 1, len(before)) = before.e

Repeat(b, n) == Tuple([k \in 1..n |-> b])

ScalarDecoders == {"DecodeUint", "DecodeInt"}

CoordDecoders == {"Codec.DecodeCoord", "DecodeCoord"}

SeqDecoders == {"Codec.DecodeCoords", "DecodeCoords"}

SeqEncoders == {"Codec.EncodeCoords", "EncodeCoords"}

Encoders ==
    {"EncodeUint", "EncodeInt", "Codec.EncodeCoord", "EncodeCoord",
     "Codec.EncodeFlatCoords"} \cup SeqEncoders

Encoded == fn \in Encoders /\ (fn = "Codec.EncodeFlatCoords" => ret.err = NoErr)

\* the scaled integer of a coordinate component, as the integer it stands for
Scaled(c, x) == SignExtend(round(FMul(c.Scale, x)))

\* "_p~iF~ps|U_ulLnnqC_mqNvxq`@"
Published ==
    <<95, 112, 126, 105, 70, 126, 112, 115, 124, 85, 95, 117, 108, 76, 110, 110,
      113, 67, 95, 109, 113, 78, 118, 120, 113, 96, 64>>

\* [[38.5, -120.2], [40.7, -120.95]]
TwoPoints ==
    <<<<Float(385, 10, 0), Float(-1202, 10, 0)>>,
      <<Float(407, 10, 0), Float(-12095, 100, 0)>>>>

Identical(coords) ==
    /\ Len(coords) >= 1
    /\ \A k \in 1..Len(coords) : coords[k] = coords[1]

\* the components of a flat array as coordinates, the last one holding what
\* is left over when the length is no multiple of dim
Ragged(fcs, dim) ==
    IF Len(fcs) % dim = 0 THEN Chunk(fcs, dim)
    ELSE Append(Chunk(fcs, dim),
                SubSeq(fcs, (Len(fcs) \div dim) * dim + 1, Len(fcs)))

(***************************************************************************)
(* Properties                                                              *)
(***************************************************************************)

\* C1: DecodeUint of EncodeUint(nil, u) followed by any bytes t returns u,
\* exactly t as the remainder, and no error.
C1_UintRoundTrip ==
    (fn = "DecodeUint" /\ sent.fn = "EncodeUint") =>
        /\ ret.err = NoErr
        /\ ret.u = sent.arg.u
        /\ ret.buf.e = sent.tail

C1_Witness ==
    /\ fn = "DecodeUint"
    /\ sent.fn = "EncodeUint"
    /\ sent.arg.u = Not(Zero)
    /\ sent.tail # <<>>
    /\ ret.u = Not(Zero)
    /\ ret.buf.e = sent.tail

\* C2: DecodeInt of EncodeInt(nil, i) returns i, an empty remainder and no
\* error for every int i, the minimum and the maximum included; and EncodeInt
\* encodes 0, -1, 1, -2, 2 as EncodeUint encodes 0, 1, 2, 3, 4.
C2_IntRoundTrip ==
    /\ (fn = "DecodeInt" /\ sent.fn = "EncodeInt" /\ sent.tail = <<>>) =>
          /\ ret.err = NoErr
          /\ ret.i = sent.arg.i
          /\ len(ret.buf) = 0
    /\ fn = "EncodeInt" =>
          \A n \in -2..2 :
             arg.i = IntOf(n) =>
                ret.buf = EncodeUint(arg.buf, Uint(IF n < 0 THEN -2 * n - 1 ELSE 2 * n))

\* C3 as claimed: EncodeCoords of the two points returns the whole published
\* string.
C3_PublishedString ==
    (fn = "EncodeCoords" /\ arg.coords = TwoPoints) => ret.buf.e = Published

\* C3: EncodeCoords of the two points [[38.5, -120.2], [40.7, -120.95]]
\* returns exactly "_p~iF~ps|U_ulLnnqC", the first 18 bytes of the published
\* string.
C3_TwoPoints ==
    (fn = "EncodeCoords" /\ arg.coords = TwoPoints) =>
        ret.buf.e = SubSeq(Published, 1, 18)

C3_Witness ==
    /\ fn = "EncodeCoords"
    /\ arg.coords = TwoPoints
    /\ len(ret.buf) = 18
    /\ ~ret.buf.nil

\* C4: DecodeCoords of EncodeCoords(nil, seq), seq not empty, returns no
\* error, an empty remainder and as many coordinates of Dim components as seq
\* has, component i of coordinate k standing for round(Scale * seq[k][i]).
C4_CoordsRoundTrip ==
    (/\ fn \in SeqDecoders
     /\ sent.fn \in SeqEncoders
     /\ Len(sent.arg.coords) > 0) =>
        /\ ret.err = NoErr
        /\ len(ret.buf) = 0
        /\ len(ret.coords) = Len(sent.arg.coords)
        /\ \A k \in 1..len(ret.coords) :
              /\ len(ret.coords.e[k]) = codec.Dim
              /\ \A i \in 1..codec.Dim :
                    ret.coords.e[k].e[i] =
                        [num |-> Scaled(codec, sent.arg.coords[k][i]),
                         den |-> codec.Scale]

\* C5: EncodeUint appends at least one byte, every appended byte but the last
\* in [95,127) and the last in [63,95); every byte any encoder appends lies in
\* [63,127), and the bytes already in the buffer stay.
C5_PrintableBytes ==
    /\ fn = "EncodeUint" =>
          LET new == Appended(arg.buf, ret.buf)
          IN  /\ KeepsPrefix(arg.buf, ret.buf)
              /\ Len(new) >= 1
              /\ \A k \in 1..(Len(new) - 1) : IsContinuation(new[k])
              /\ IsTerminal(new[Len(new)])
    /\ Encoded =>
          LET new == Appended(arg.buf, ret.buf)
          IN  /\ KeepsPrefix(arg.buf, ret.buf)
              /\ \A k \in 1..Len(new) : 63 <= new[k] /\ new[k] < 127

C5_Witness ==
    /\ fn = "EncodeUint"
    /\ arg.u = Not(Zero)
    /\ len(arg.buf) > 0
    /\ Len(Appended(arg.buf, ret.buf)) = Digits

\* C6 as claimed: a byte outside [63,127) at any position of the buffer makes
\* DecodeUint, DecodeInt, DecodeCoord and DecodeCoords fail with InvalidByte.
C6_ForeignAnywhere ==
    (/\ fn \in ScalarDecoders \cup CoordDecoders \cup SeqDecoders
     /\ HasForeign(arg.buf.e)) =>
        ret.err = errInvalidByte

\* C6: a byte outside [63,127) that is consumed makes decoding fail with
\* InvalidByte and no value: for DecodeUint and DecodeInt a byte before the
\* first terminal byte, for DecodeCoord a byte before the Dim-th terminal
\* byte, for DecodeCoords (which consumes the whole buffer) a byte anywhere.
\* A byte outside [63,127) after the bytes that DecodeUint, DecodeInt or
\* DecodeCoord consume is no error: it is returned in the remainder.
C6_ForeignConsumed ==
    /\ (fn = "DecodeUint" /\ ForeignWithin(arg.buf.e, 1)) =>
          ret = [u |-> Zero, buf |-> NilSlice, err |-> errInvalidByte]
    /\ (fn = "DecodeInt" /\ ForeignWithin(arg.buf.e, 1)) =>
          ret = [i |-> Zero, buf |-> NilSlice, err |-> errInvalidByte]
    /\ (fn \in CoordDecoders /\ ForeignWithin(arg.buf.e, codec.Dim)) =>
          ret = [coord |-> NilSlice, buf |-> NilSlice, err |-> errInvalidByte]
    /\ (fn \in SeqDecoders /\ HasForeign(arg.buf.e)) =>
          ret = [coords |-> NilSlice, buf |-> NilSlice, err |-> errInvalidByte]
    /\ (/\ fn \in ScalarDecoders \cup CoordDecoders
        /\ HasForeign(arg.buf.e)
        /\ ~ForeignWithin(arg.buf.e, IF fn \in ScalarDecoders THEN 1 ELSE codec.Dim)) =>
          /\ ret.err = NoErr
          /\ HasForeign(ret.buf.e)

C6_Witness ==
    /\ fn = "Codec.DecodeCoords"
    /\ codec.Dim = 1
    /\ arg.buf.e = <<63, 94, 127>>
    /\ ret.err = errInvalidByte

\* C7: a buffer of continuation bytes only, the empty buffer included, makes
\* DecodeUint, DecodeInt, DecodeCoord and DecodeCoords fail with
\* UnterminatedSequence, a zero or nil value and a nil remainder.
C7_Unterminated ==
    AllContinuation(arg.buf.e) =>
        /\ fn = "DecodeUint" =>
              ret = [u |-> Zero, buf |-> NilSlice, err |-> errUnterminatedSequence]
        /\ fn = "DecodeInt" =>
              ret = [i |-> Zero, buf |-> NilSlice, err |-> errUnterminatedSequence]
        /\ fn \in CoordDecoders =>
              ret = [coord |-> NilSlice, buf |-> NilSlice,
                     err |-> errUnterminatedSequence]
        /\ fn \in SeqDecoders =>
              ret = [coords |-> NilSlice, buf |-> NilSlice,
                     err |-> errUnterminatedSequence]

C7_Witness ==
    /\ fn = "Codec.DecodeCoords"
    /\ arg.buf = Slice(<<>>)
    /\ ret.err = errUnterminatedSequence
    /\ ret.coords.nil

\* C8: EncodeFlatCoords on a flat array, and DecodeFlatCoords on a
\* destination array, whose length is no multiple of Dim fail with
\* DimensionalMismatch and return nil for everything else.
C8_DimensionalMismatch ==
    /\ (fn = "Codec.EncodeFlatCoords" /\ Len(arg.fcs) % codec.Dim # 0) =>
          ret = [buf |-> NilSlice, err |-> errDimensionalMismatch]
    /\ (fn = "Codec.DecodeFlatCoords" /\ len(arg.fcs) % codec.Dim # 0) =>
          ret = [fcs |-> NilSlice, buf |-> NilSlice, err |-> errDimensionalMismatch]

C8_Witness ==
    /\ fn = "Codec.DecodeFlatCoords"
    /\ codec.Dim = 2
    /\ len(arg.fcs) = 1
    /\ arg.buf.e = <<63, 63>>
    /\ ret.err = errDimensionalMismatch

\* C9 as claimed: for n identical coordinates EncodeCoords appends the first
\* coordinate's encoding and then n * Dim bytes 63.
C9_ZeroDeltasN ==
    (fn \in SeqEncoders /\ Identical(arg.coords)) =>
        Appended(arg.buf, ret.buf) =
            CodecEncodeCoord(codec, NilSlice, arg.coords[1]).e
                \o Repeat(63, Len(arg.coords) * codec.Dim)

\* C9: for n >= 1 identical coordinates EncodeCoords appends the first
\* coordinate's encoding and then exactly (n - 1) * Dim bytes 63, one for
\* each component of the n - 1 coordinates after the first.
C9_ZeroDeltas ==
    (fn \in SeqEncoders /\ Identical(arg.coords)) =>
        Appended(arg.buf, ret.buf) =
            CodecEncodeCoord(codec, NilSlice, arg.coords[1]).e
                \o Repeat(63, (Len(arg.coords) - 1) * codec.Dim)

C9_Witness ==
    /\ fn = "Codec.EncodeCoords"
    /\ codec.Dim = 2
    /\ Len(arg.coords) = 2
    /\ arg.coords[1] = <<Float(-3, 2, 0), Float(-1, 1, UintSize - 1)>>
    /\ arg.coords[2] = arg.coords[1]
    /\ SubSeq(ret.buf.e, len(ret.buf) - 1, len(ret.buf)) = <<63, 63>>

\* C10: for coordinates of Dim components each, EncodeFlatCoords on the flat
\* array returns no error and the bytes EncodeCoords returns on the
\* coordinates, and after each component the two loops hold the same buf and
\* the same last.  The loops go left to right, so what they hold after p
\* components of an array is what they hold at the end of its first p
\* components; the flat arrays EncodeFlatCoords is called on are closed under
\* prefixes, of length a multiple of Dim or not, so the second conjunct
\* covers every component of every array.
C10_FlatEqualsSeq ==
    fn = "Codec.EncodeFlatCoords" =>
        LET seq == CodecEncodeCoordsRun(codec, arg.buf, Ragged(arg.fcs, codec.Dim))
        IN  /\ Len(arg.fcs) % codec.Dim = 0 =>
                  /\ ret.err = NoErr
                  /\ ret.buf = seq.buf
            /\ CodecEncodeFlatCoordsRun(codec, arg.buf, arg.fcs) = seq

C10_Witness ==
    /\ fn = "Codec.EncodeFlatCoords"
    /\ codec.Dim = 2
    /\ Len(arg.fcs) = 4
    /\ arg.fcs[1] # arg.fcs[3]
    /\ arg.fcs[2] # arg.fcs[4]
    /\ ret.err = NoErr
    /\ len(arg.buf) > 0

====
